---- MODULE Spec2Model ----
(***************************************************************************)
(* Model of the low-stock alert endpoint of part3_api_implementation.py:   *)
(* GET /api/companies/<company_id>/alerts/low-stock.                       *)
(*                                                                         *)
(* The store (inventory, order items, product-supplier links) is chosen    *)
(* in Init and never written by the handler.  One request at a time walks  *)
(* through the handler's statements; every query may raise, which Flask    *)
(* turns into a 500 response.                                              *)
(***************************************************************************)
EXTENDS Integers, Sequences, FiniteSets, TLC

VARIABLES
    inventory,          \* Inventory rows, in the store's fetch order
    order_items,        \* OrderItem rows joined with their Order's company
    product_suppliers,  \* ProductSupplier rows joined with Supplier, in fetch order
    clock,              \* the wall clock (datetime.utcnow()), in whole days
    pc,                 \* position of the request in low_stock_alerts
    company_id,         \* the route parameter
    company,            \* local `company`: <<>> for None, <<id>> when found
    now,                \* local `now`
    candidate_rows,     \* local `candidate_rows`
    product_ids,        \* local `product_ids` (a list built from a set)
    recent_sales_map,   \* local `recent_sales_map`
    avg_sales_map,      \* local `avg_sales_map`
    suppliers_q,        \* local `suppliers_q`
    supplier_map,       \* local `supplier_map`
    idx,                \* position of the assembly loop in candidate_rows
    alerts,             \* local `alerts`
    response,           \* what the request returned
    raised,             \* whether an exception ended the request
    prev                \* the last successful response, with its company and instant

store == <<inventory, order_items, product_suppliers>>
locals == <<company_id, company, now, candidate_rows, product_ids, recent_sales_map,
            avg_sales_map, suppliers_q, supplier_map, idx, alerts>>
vars == <<inventory, order_items, product_suppliers, clock, pc, company_id, company, now,
          candidate_rows, product_ids, recent_sales_map, avg_sales_map, suppliers_q,
          supplier_map, idx, alerts, response, raised, prev>>

-----------------------------------------------------------------------------
(* Bounds of the explored stores *)
MaxInv == 2
MaxItems == 2
MaxLinks == 3
MaxStock == 11
MaxSold == 11
MaxClock == 1

(* Configurable windows *)
SALES_AVG_WINDOW_DAYS == 30
SALES_ACTIVITY_WINDOW_DAYS == 60

(* Python's None, and a present value, as sequences of length 0 and 1 *)
None == <<>>
Some(x) == <<x>>

-----------------------------------------------------------------------------
(* The fixed part of the store *)

\* ids a request may carry; the Company table holds only some of them
CompanyIds == {1, 2, 3}
Company == {1, 2}

\* Warehouse.id -> Warehouse.company_id
Warehouse == (1 :> 1) @@ (2 :> 2) @@ (3 :> 1)

ProductIds == {1, 2}

-----------------------------------------------------------------------------
(* Python float arithmetic (IEEE-754 binary64, round to nearest, ties to   *)
(* even).  A 53-bit significand is kept as two limbs <<hi, lo>> of value   *)
(* hi * LimbBase + lo, so that every intermediate fits a machine integer.  *)

MantissaBits == 53
LimbBits == 27
LimbBase == 2 ^ LimbBits
\* hi limb of the smallest 53-bit significand, 2^52
NormalHi == 2 ^ (MantissaBits - 1 - LimbBits)

LimbDouble(x, bit) ==
    LET l == 2 * x[2] + bit
    IN  <<2 * x[1] + (l \div LimbBase), l % LimbBase>>

LimbGeq(x, y) == x[1] > y[1] \/ (x[1] = y[1] /\ x[2] >= y[2])

LimbSub(x, y) ==
    IF x[2] >= y[2] THEN <<x[1] - y[1], x[2] - y[2]>>
                    ELSE <<x[1] - y[1] - 1, x[2] + LimbBase - y[2]>>

LimbInc(x) ==
    IF x[2] + 1 = LimbBase THEN <<x[1] + 1, 0>> ELSE <<x[1], x[2] + 1>>

RECURSIVE BitLength(_)
BitLength(n) == IF n = 0 THEN 0 ELSE 1 + BitLength(n \div 2)

\* Long division n / d carried on until the quotient has 53 significant bits:
\* m is the quotient so far, r the remainder, k the number of binary places.
RECURSIVE DivBits(_, _, _, _)
DivBits(m, r, d, k) ==
    IF m[1] >= NormalHi
    THEN [m |-> m, r |-> r, k |-> k]
    ELSE LET bit == IF 2 * r >= d THEN 1 ELSE 0
         IN  DivBits(LimbDouble(m, bit), 2 * r - bit * d, d, k + 1)

\* int / int for 0 < n, 0 < d: the correctly rounded quotient, as the
\* significand m and the exponent k of the value m * 2^(-k).
TrueDivide(n, d) ==
    LET q == DivBits(<<0, n \div d>>, n % d, d, 0)
        up == 2 * q.r > d \/ (2 * q.r = d /\ q.m[2] % 2 = 1)
        m == IF up THEN LimbInc(q.m) ELSE q.m
    IN  IF m[1] >= 2 * NormalHi
        THEN [m |-> <<NormalHi, 0>>, k |-> q.k - 1]
        ELSE [m |-> m, k |-> q.k]

\* Integer part of (r * 2^k) / m, with the remainder: k steps of long division.
RECURSIVE IntPart(_, _, _, _)
IntPart(r, m, k, acc) ==
    IF k = 0
    THEN [int |-> acc, r |-> r]
    ELSE LET r2 == LimbDouble(r, 0)
         IN  IF LimbGeq(r2, m)
             THEN IntPart(LimbSub(r2, m), m, k - 1, 2 * acc + 1)
             ELSE IntPart(r2, m, k - 1, 2 * acc)

\* The n fraction bits that follow: whether any is set, the last one, and
\* the remainder left for rounding.
RECURSIVE FracPart(_, _, _, _, _)
FracPart(r, m, n, any, last) ==
    IF n = 0
    THEN [any |-> any, last |-> last, r |-> r]
    ELSE LET r2 == LimbDouble(r, 0)
         IN  IF LimbGeq(r2, m)
             THEN FracPart(LimbSub(r2, m), m, n - 1, TRUE, 1)
             ELSE FracPart(r2, m, n - 1, any, 0)

\* math.ceil(q / a) for an int q >= 0 and a float a = m * 2^(-k) > 0:
\* the quotient is rounded to 53 significant bits before the ceiling.
CeilDivFloat(q, a) ==
    IF q = 0 THEN 0
    ELSE LET ip == IntPart(<<0, q>>, a.m, a.k, 0)
         IN  IF ip.int = 0 THEN 1
             ELSE LET fp == FracPart(ip.r, a.m, MantissaBits - BitLength(ip.int),
                                     FALSE, ip.int % 2)
                      r2 == LimbDouble(fp.r, 0)
                      up == (r2 # a.m /\ LimbGeq(r2, a.m)) \/ (r2 = a.m /\ fp.last = 1)
                  IN  IF fp.any \/ up THEN ip.int + 1 ELSE ip.int

Max(a, b) == IF a >= b THEN a ELSE b

\* Lines 102-108: the projection of one candidate, None when there is no velocity.
\* total / max(WINDOW, 1) > 0 exactly when total > 0.
DaysUntilStockout(quantity, total_sold_in_avg) ==
    IF total_sold_in_avg > 0
    THEN Some(CeilDivFloat(quantity,
                           TrueDivide(total_sold_in_avg, Max(SALES_AVG_WINDOW_DAYS, 1))))
    ELSE None

-----------------------------------------------------------------------------
(* The queries *)

\* timedelta arithmetic on `now`
avg_since_conflated == now - SALES_ACTIVITY_WINDOW_DAYS
avg_since == now - SALES_AVG_WINDOW_DAYS
activity_since == now - SALES_ACTIVITY_WINDOW_DAYS

\* Step 1: Inventory joined to Warehouse and Product, filtered
IsCandidateAnyCompany(row, cid) == row.quantity <= row.threshold

IsCandidate(row, cid) ==
    /\ Warehouse[row.warehouse_id] = cid
    /\ row.quantity <= row.threshold

CandidateQuery(cid) ==
    LET Test(row) == IsCandidate(row, cid)
    IN  SelectSeq(inventory, Test)

\* {prod.id for _, prod, _ in candidate_rows}
ProductIdSet(rows) == {rows[i].product_id : i \in DOMAIN rows}

\* list(set): the orders in which a set may be iterated
ListsOf(S) ==
    {f \in [1..Cardinality(S) -> S] : \A i, j \in DOMAIN f : f[i] = f[j] => i = j}

Range(f) == {f[i] : i \in DOMAIN f}

RECURSIVE SumQuantity(_)
SumQuantity(items) ==
    IF items = {} THEN 0
    ELSE LET it == CHOOSE x \in items : TRUE
         IN  it.quantity + SumQuantity(items \ {it})

\* Steps 2 and 3: SUM(OrderItem.quantity) grouped by product; a product
\* without a matching row is absent from the result
SalesFilterFirstOnly(it, cid, pids, since) ==
    /\ it.company_id = cid
    /\ it.product_id = pids[1]
    /\ it.created_at >= since

SalesFilterStrict(it, cid, pids, since) ==
    /\ it.company_id = cid
    /\ it.product_id \in Range(pids)
    /\ it.created_at > since

SalesFilter(it, cid, pids, since) ==
    /\ it.company_id = cid
    /\ it.product_id \in Range(pids)
    /\ it.created_at >= since

SalesQuery(cid, pids, since) ==
    LET matching == {it \in order_items : SalesFilter(it, cid, pids, since)}
    IN  [p \in {it.product_id : it \in matching} |->
            SumQuantity({it \in matching : it.product_id = p})]

\* Step 4: ProductSupplier joined to Supplier, restricted to the products
SupplierQuery(pids) ==
    LET Test(link) == link.product_id \in Range(pids)
    IN  SelectSeq(product_suppliers, Test)

\* dict.get(key, default)
Get(map, key, default) == IF key \in DOMAIN map THEN map[key] ELSE default

PreferPrimaryLatest(map, link) ==
    LET new == [id |-> link.supplier_id, is_primary |-> link.is_primary]
    IN  IF link.product_id \notin DOMAIN map
        THEN map @@ (link.product_id :> new)
        ELSE IF link.is_primary
             THEN [map EXCEPT ![link.product_id] = new]
             ELSE map

\* Lines 84-91: one iteration of the supplier loop
PreferPrimary(map, link) ==
    LET new == [id |-> link.supplier_id, is_primary |-> link.is_primary]
    IN  IF link.product_id \notin DOMAIN map
        THEN map @@ (link.product_id :> new)
        ELSE IF link.is_primary /\ ~ map[link.product_id].is_primary
             THEN [map EXCEPT ![link.product_id] = new]
             ELSE map

RECURSIVE BuildSupplierMap(_, _)
BuildSupplierMap(links, map) ==
    IF links = <<>> THEN map
    ELSE BuildSupplierMap(Tail(links), PreferPrimary(map, Head(links)))

EmptyMap == [p \in {} |-> 0]

\* Lines 110-113: the supplier of an alert, without the is_primary flag
SupplierInfo(map, pid) ==
    IF pid \in DOMAIN map THEN Some([id |-> map[pid].id]) ELSE None

Alert(row) ==
    [product_id |-> row.product_id,
     warehouse_id |-> row.warehouse_id,
     current_stock |-> row.quantity,
     threshold |-> row.threshold,
     days_until_stockout |->
         DaysUntilStockout(row.quantity, Get(avg_sales_map, row.product_id, 0)),
     supplier |-> SupplierInfo(supplier_map, row.product_id)]

AlertsAfterUngated(acc, row) == Append(acc, Alert(row))

AlertsAfterPrepend(acc, row) ==
    IF Get(recent_sales_map, row.product_id, 0) = 0
    THEN acc
    ELSE <<Alert(row)>> \o acc

\* Lines 95-125: the alerts after one candidate row
AlertsAfter(acc, row) ==
    IF Get(recent_sales_map, row.product_id, 0) = 0
    THEN acc
    ELSE Append(acc, Alert(row))

(* The responses *)
NoResponse == [status |-> 0]
Success(list) == [status |-> 200, alerts |-> list, total_alerts |-> Len(list)]
NotFoundAsEmptySuccess == Success(<<>>)
NotFound == [status |-> 404, error |-> "Company not found"]
ServerErrorAsPartialSuccess == Success(alerts)
ServerError == [status |-> 500]

-----------------------------------------------------------------------------
(* The stores explored: four families, each varying one table *)

SeqsUpTo(S, n) == UNION {[1..k -> S] : k \in 0..n}

InvRow(p, w, q, t) ==
    [product_id |-> p, warehouse_id |-> w, quantity |-> q, threshold |-> t]
Item(c, p, q, at) ==
    [company_id |-> c, product_id |-> p, quantity |-> q, created_at |-> at]
Link(p, s, primary) ==
    [product_id |-> p, supplier_id |-> s, is_primary |-> primary]

\* an Inventory row is one (product, warehouse) position
DistinctPositions(rows) ==
    \A i, j \in DOMAIN rows :
        (rows[i].product_id = rows[j].product_id
         /\ rows[i].warehouse_id = rows[j].warehouse_id) => i = j

\* every product sold by every company at day 0
ActiveItems == {Item(c, p, 20, 0) : c \in Company, p \in ProductIds}

\* company 1: three low positions and one above its threshold; company 2: one low position
LowInventory ==
    <<InvRow(1, 1, 5, 10), InvRow(2, 1, 3, 3), InvRow(1, 2, 5, 10), InvRow(2, 3, 11, 10),
      InvRow(1, 3, 0, 4)>>

InventoryStores ==
    {[inventory |-> rows, order_items |-> ActiveItems,
      product_suppliers |-> <<Link(1, 1, FALSE)>>] :
        rows \in {r \in SeqsUpTo([product_id : ProductIds, warehouse_id : {1, 2},
                                  quantity : {3, MaxStock}, threshold : {3}], MaxInv) :
                    DistinctPositions(r)}}

\* sales of company 1 at either side of each window start at day 0, some of
\* quantity zero, and sales of product 1 by company 2
ItemKinds ==
    [company_id : {1}, product_id : ProductIds, quantity : {20},
     created_at : {0 - SALES_ACTIVITY_WINDOW_DAYS - 1, 0 - SALES_ACTIVITY_WINDOW_DAYS,
                   0 - SALES_AVG_WINDOW_DAYS}]
    \cup
    [company_id : {1}, product_id : ProductIds, quantity : {0},
     created_at : {0 - SALES_AVG_WINDOW_DAYS}]
    \cup
    [company_id : {2}, product_id : {1}, quantity : {20},
     created_at : {0 - SALES_ACTIVITY_WINDOW_DAYS, 0 - SALES_AVG_WINDOW_DAYS}]

SalesStores ==
    {[inventory |-> LowInventory, order_items |-> items, product_suppliers |-> <<>>] :
        items \in {s \in SUBSET ItemKinds : Cardinality(s) <= MaxItems}}

ProjectionStores ==
    {[inventory |-> <<InvRow(1, 1, q, q)>>,
      order_items |-> {Item(1, 1, s, 0 - SALES_AVG_WINDOW_DAYS)},
      product_suppliers |-> <<>>] : q \in 0..MaxStock, s \in 0..MaxSold}

\* links of product 1, primary or not, among non-primary links of product 2;
\* the i-th link of the table goes to supplier i
LinkKinds == {<<1, TRUE>>, <<1, FALSE>>, <<2, FALSE>>}

SupplierStores ==
    {[inventory |-> LowInventory, order_items |-> ActiveItems,
      product_suppliers |-> [i \in DOMAIN kinds |-> Link(kinds[i][1], i, kinds[i][2])]] :
        kinds \in SeqsUpTo(LinkKinds, MaxLinks)}

Stores == InventoryStores \cup SalesStores \cup ProjectionStores \cup SupplierStores

-----------------------------------------------------------------------------
(* The request *)

Init ==
    /\ \E s \in Stores :
        /\ inventory = s.inventory
        /\ order_items = s.order_items
        /\ product_suppliers = s.product_suppliers
    /\ clock = 0
    /\ pc = "idle"
    /\ company_id = 0
    /\ company = None
    /\ now = 0
    /\ candidate_rows = <<>>
    /\ product_ids = <<>>
    /\ recent_sales_map = EmptyMap
    /\ avg_sales_map = EmptyMap
    /\ suppliers_q = <<>>
    /\ supplier_map = EmptyMap
    /\ idx = 1
    /\ alerts = <<>>
    /\ response = NoResponse
    /\ raised = FALSE
    /\ prev = None

\* time passes
Tick ==
    /\ clock < MaxClock
    /\ clock' = clock + 1
    /\ UNCHANGED <<store, pc, locals, response, raised, prev>>

\* a request arrives; the one before it, if it succeeded, is remembered
Request(cid) ==
    /\ pc \in {"idle", "done"}
    /\ pc' = "validate"
    /\ company_id' = cid
    /\ company' = None
    /\ now' = 0
    /\ candidate_rows' = <<>>
    /\ product_ids' = <<>>
    /\ recent_sales_map' = EmptyMap
    /\ avg_sales_map' = EmptyMap
    /\ suppliers_q' = <<>>
    /\ supplier_map' = EmptyMap
    /\ idx' = 1
    /\ alerts' = <<>>
    /\ response' = NoResponse
    /\ raised' = FALSE
    /\ prev' = IF response.status = 200
               THEN Some([company_id |-> company_id, now |-> now, body |-> response])
               ELSE prev
    /\ UNCHANGED <<store, clock>>

\* Lines 26-32
ValidateCompany ==
    /\ pc = "validate"
    /\ IF company_id \in Company
       THEN /\ company' = Some(company_id)
            /\ now' = clock
            /\ pc' = "candidates"
            /\ UNCHANGED response
       ELSE /\ company' = None
            /\ response' = NotFound
            /\ pc' = "done"
            /\ UNCHANGED now
    /\ UNCHANGED <<store, clock, company_id, candidate_rows, product_ids, recent_sales_map,
                   avg_sales_map, suppliers_q, supplier_map, idx, alerts, raised, prev>>

\* Lines 36-49
FetchCandidates ==
    /\ pc = "candidates"
    /\ candidate_rows' = CandidateQuery(company_id)
    /\ IF candidate_rows' = <<>>
       THEN /\ response' = Success(<<>>)
            /\ pc' = "done"
            /\ UNCHANGED product_ids
       ELSE /\ product_ids' \in ListsOf(ProductIdSet(candidate_rows'))
            /\ pc' = "recent_sales"
            /\ UNCHANGED response
    /\ UNCHANGED <<store, clock, company_id, company, now, recent_sales_map, avg_sales_map,
                   suppliers_q, supplier_map, idx, alerts, raised, prev>>

\* Lines 52-61
FetchRecentSales ==
    /\ pc = "recent_sales"
    /\ recent_sales_map' = SalesQuery(company_id, product_ids, activity_since)
    /\ pc' = "avg_sales"
    /\ UNCHANGED <<store, clock, company_id, company, now, candidate_rows, product_ids,
                   avg_sales_map, suppliers_q, supplier_map, idx, alerts, response, raised, prev>>

\* Lines 64-73
FetchAvgSales ==
    /\ pc = "avg_sales"
    /\ avg_sales_map' = SalesQuery(company_id, product_ids, avg_since)
    /\ pc' = "suppliers"
    /\ UNCHANGED <<store, clock, company_id, company, now, candidate_rows, product_ids,
                   recent_sales_map, suppliers_q, supplier_map, idx, alerts, response, raised, prev>>

\* Lines 76-80
FetchSuppliers ==
    /\ pc = "suppliers"
    /\ suppliers_q' = SupplierQuery(product_ids)
    /\ pc' = "supplier_map"
    /\ UNCHANGED <<store, clock, company_id, company, now, candidate_rows, product_ids,
                   recent_sales_map, avg_sales_map, supplier_map, idx, alerts, response, raised, prev>>

\* Lines 83-93
SupplierLoop ==
    /\ pc = "supplier_map"
    /\ supplier_map' = BuildSupplierMap(suppliers_q, EmptyMap)
    /\ pc' = "assemble"
    /\ UNCHANGED <<store, clock, company_id, company, now, candidate_rows, product_ids,
                   recent_sales_map, avg_sales_map, suppliers_q, idx, alerts, response, raised, prev>>

\* Lines 94-125: one iteration of the assembly loop
AssembleRow ==
    /\ pc = "assemble"
    /\ idx <= Len(candidate_rows)
    /\ alerts' = AlertsAfter(alerts, candidate_rows[idx])
    /\ idx' = idx + 1
    /\ UNCHANGED <<store, clock, pc, company_id, company, now, candidate_rows, product_ids,
                   recent_sales_map, avg_sales_map, suppliers_q, supplier_map, response, raised, prev>>

\* Line 127
Return ==
    /\ pc = "assemble"
    /\ idx > Len(candidate_rows)
    /\ response' = Success(alerts)
    /\ pc' = "done"
    /\ UNCHANGED <<store, clock, locals, raised, prev>>

\* a query raises: nothing catches it and the request ends with a 500
QueryFails ==
    /\ pc \in {"validate", "candidates", "recent_sales", "avg_sales", "suppliers"}
    /\ response' = ServerError
    /\ raised' = TRUE
    /\ pc' = "done"
    /\ UNCHANGED <<store, clock, locals, prev>>

Next ==
    \/ Tick
    \/ \E cid \in CompanyIds : Request(cid)
    \/ ValidateCompany
    \/ FetchCandidates
    \/ FetchRecentSales
    \/ FetchAvgSales
    \/ FetchSuppliers
    \/ SupplierLoop
    \/ AssembleRow
    \/ Return
    \/ QueryFails

Spec == Init /\ [][Next]_vars

-----------------------------------------------------------------------------
(* Vocabulary of the properties, read off the store rather than off the    *)
(* request's locals                                                        *)

\* the alerts a response carries
Emitted == IF "alerts" \in DOMAIN response THEN response.alerts ELSE <<>>

Finished == pc = "done" /\ response.status = 200

\* units of product p sold by company cid since day `since`, boundary included
SoldSince(cid, p, since) ==
    SumQuantity({it \in order_items :
                    it.company_id = cid /\ it.product_id = p /\ it.created_at >= since})

ActivitySold(p) == SoldSince(company_id, p, now - SALES_ACTIVITY_WINDOW_DAYS)
AveragingSold(p) == SoldSince(company_id, p, now - SALES_AVG_WINDOW_DAYS)

\* The ceiling of the exact quotient n / d, for 0 <= n and 0 < d
ExactCeil(n, d) == (n + d - 1) \div d

SamePosition(a, row) ==
    a.product_id = row.product_id /\ a.warehouse_id = row.warehouse_id

\* the low positions of the requested company, in fetch order
OwnLow(row) == Warehouse[row.warehouse_id] = company_id /\ row.quantity <= row.threshold

Positions(rows) == [i \in DOMAIN rows |-> <<rows[i].product_id, rows[i].warehouse_id>>]

EligibleRows ==
    LET Test(row) == OwnLow(row) /\ ActivitySold(row.product_id) # 0
    IN  SelectSeq(inventory, Test)

\* the links of product p, in fetch order
LinksOf(p) ==
    LET Test(link) == link.product_id = p
    IN  SelectSeq(product_suppliers, Test)

\* first primary link if there is one, else first link, else none
PreferredSupplier(p) ==
    LET links == LinksOf(p)
        IsPrimary(link) == link.is_primary
        primaries == SelectSeq(links, IsPrimary)
    IN  IF links = <<>> THEN None
        ELSE IF primaries # <<>> THEN Some([id |-> Head(primaries).supplier_id])
        ELSE Some([id |-> Head(links).supplier_id])

-----------------------------------------------------------------------------
\* C1: every alert returned is an inventory position of the requested
\* company whose quantity is at most its threshold (equality included); a
\* position above its threshold or in another company's warehouse has no alert.
C1_AlertsAreLowStockOfCompany ==
    \A i \in DOMAIN Emitted :
        \E j \in DOMAIN inventory :
            /\ SamePosition(Emitted[i], inventory[j])
            /\ Emitted[i].current_stock = inventory[j].quantity
            /\ Emitted[i].threshold = inventory[j].threshold
            /\ inventory[j].quantity <= inventory[j].threshold
            /\ Warehouse[inventory[j].warehouse_id] = company_id

\* an alert at quantity = threshold is returned while a position above its
\* threshold and a low position of another company stay out
C1_Witness ==
    /\ Finished
    /\ \E i \in DOMAIN Emitted : Emitted[i].current_stock = Emitted[i].threshold
    /\ \E j \in DOMAIN inventory :
        /\ Warehouse[inventory[j].warehouse_id] = company_id
        /\ inventory[j].quantity > inventory[j].threshold
        /\ ActivitySold(inventory[j].product_id) # 0
    /\ \E j \in DOMAIN inventory :
        /\ Warehouse[inventory[j].warehouse_id] # company_id
        /\ inventory[j].quantity <= inventory[j].threshold
        /\ ActivitySold(inventory[j].product_id) # 0

\* C2: a candidate whose product sold zero units in the activity window (no
\* matching order item, or items summing to zero) gets no alert.
C2_NoAlertWithoutActivity ==
    /\ \A i \in DOMAIN Emitted : ActivitySold(Emitted[i].product_id) # 0
    /\ \A i \in DOMAIN alerts : ActivitySold(alerts[i].product_id) # 0

\* a candidate with order items in the window that sum to zero is left out
\* of a response that alerts on another product
C2_Witness ==
    /\ Finished
    /\ Emitted # <<>>
    /\ \E j \in DOMAIN candidate_rows :
        /\ ActivitySold(candidate_rows[j].product_id) = 0
        /\ \E it \in order_items :
            /\ it.company_id = company_id
            /\ it.product_id = candidate_rows[j].product_id
            /\ it.created_at >= now - SALES_ACTIVITY_WINDOW_DAYS
        /\ \A i \in DOMAIN Emitted : ~ SamePosition(Emitted[i], candidate_rows[j])

\* C3: days_until_stockout is null iff the averaging-window sales are 0, and
\* otherwise is the ceiling of currentStock / (sales / window), which is >= 0.
C3_ProjectionIsExactCeiling ==
    \A i \in DOMAIN Emitted :
        LET a == Emitted[i]
            sold == AveragingSold(a.product_id)
        IN  /\ a.days_until_stockout = None <=> sold = 0
            /\ sold # 0 =>
                /\ a.days_until_stockout =
                       Some(ExactCeil(a.current_stock * SALES_AVG_WINDOW_DAYS, sold))
                /\ ExactCeil(a.current_stock * SALES_AVG_WINDOW_DAYS, sold) >= 0

\* C4: the supplier of an alert is null iff the product has no link, and
\* otherwise is the first primary link in fetch order, or the first link
\* when none is primary.
C4_SupplierIsFirstSeenPrimaryFirst ==
    \A i \in DOMAIN Emitted :
        /\ Emitted[i].supplier = PreferredSupplier(Emitted[i].product_id)
        /\ Emitted[i].supplier = None <=> LinksOf(Emitted[i].product_id) = <<>>

\* an alert carries a primary supplier that came after a non-primary one and
\* before another primary one
C4_Witness ==
    /\ Finished
    /\ \E i \in DOMAIN Emitted :
        LET links == LinksOf(Emitted[i].product_id)
        IN  \E a, b, c \in DOMAIN links :
                /\ a < b /\ b < c
                /\ ~ links[a].is_primary
                /\ links[b].is_primary
                /\ links[c].is_primary
                /\ Emitted[i].supplier = Some([id |-> links[b].supplier_id])

\* C5: a request for a company id that is not in the Company table ends,
\* whenever the lookup answers, with the 404 "Company not found" response:
\* never with a success, and without any query result or alert being built.
C5_UnknownCompanyIsNotFound ==
    (pc # "idle" /\ company_id \notin Company) =>
        /\ pc \in {"validate", "done"}
        /\ response.status # 200
        /\ "alerts" \notin DOMAIN response
        /\ (pc = "done" /\ ~ raised) =>
               (response.status = 404 /\ response.error = "Company not found")
        /\ candidate_rows = <<>>
        /\ product_ids = <<>>
        /\ recent_sales_map = EmptyMap
        /\ avg_sales_map = EmptyMap
        /\ suppliers_q = <<>>
        /\ alerts = <<>>

\* the unknown company 3 was answered with 404 over a store that has inventory
C5_Witness ==
    /\ pc = "done"
    /\ company_id \notin Company
    /\ ~ raised
    /\ response.status = 404
    /\ inventory # <<>>

\* C6, as claimed: two successful invocations for the same company over the
\* same store return the same response, whenever they are made.
C6_SameCompanySameResponse ==
    (Finished /\ prev # None /\ prev[1].company_id = company_id) =>
        response = prev[1].body

\* C6, amended: two successful invocations for the same company over the
\* same store and at the same instant `now` return the same response,
\* whatever the order in which the product-id set is listed.
C6_SameInstantSameResponse ==
    (Finished /\ prev # None /\ prev[1].company_id = company_id /\ prev[1].now = now) =>
        response = prev[1].body

\* a second invocation at the same instant over two candidate products
C6_Witness ==
    /\ Finished
    /\ prev # None
    /\ prev[1].company_id = company_id
    /\ prev[1].now = now
    /\ Len(product_ids) >= 2
    /\ Len(Emitted) >= 2

\* C7: eligibility follows the activity-window sum alone and the projection
\* the averaging-window sum alone: a candidate sold in the activity window but
\* not in the averaging window is alerted with days_until_stockout = null.
C7_WindowsIndependent ==
    Finished =>
        /\ \A j \in DOMAIN inventory :
            (/\ OwnLow(inventory[j])
             /\ ActivitySold(inventory[j].product_id) # 0
             /\ AveragingSold(inventory[j].product_id) = 0) =>
                \E i \in DOMAIN Emitted :
                    /\ SamePosition(Emitted[i], inventory[j])
                    /\ Emitted[i].days_until_stockout = None
        /\ \A i \in DOMAIN Emitted :
            Emitted[i].days_until_stockout # None
                => AveragingSold(Emitted[i].product_id) # 0

\* an alert without projection for a product sold only before the averaging window
C7_Witness ==
    /\ Finished
    /\ \E i \in DOMAIN Emitted :
        /\ Emitted[i].days_until_stockout = None
        /\ ActivitySold(Emitted[i].product_id) > 0
        /\ AveragingSold(Emitted[i].product_id) = 0

\* C8: a successful response lists exactly the eligible candidates, once
\* each and in fetch order, total_alerts is the length of the list, and a
\* request for an existing company that no exception ends is a success.
C8_AlertsFollowFetchOrder ==
    /\ Finished =>
        /\ Positions(response.alerts) = Positions(EligibleRows)
        /\ response.total_alerts = Len(response.alerts)
    /\ (pc = "done" /\ ~ raised /\ company_id \in Company) => response.status = 200

\* two alerts around a candidate that was skipped
C8_Witness ==
    /\ Finished
    /\ Len(Emitted) >= 2
    /\ \E j \in DOMAIN candidate_rows :
        /\ 1 < j /\ j < Len(candidate_rows)
        /\ \A i \in DOMAIN Emitted : ~ SamePosition(Emitted[i], candidate_rows[j])
        /\ SamePosition(Emitted[1], candidate_rows[1])

\* C9: a failed query ends the request with a response that carries no
\* alerts and is neither a success nor the 404 of an unknown company; the
\* assembly loop runs only in a request in which no query failed.
C9_NoPartialAlertsOnFailure ==
    /\ raised =>
        /\ pc = "done"
        /\ response.status \notin {200, 404}
        /\ "alerts" \notin DOMAIN response
        /\ alerts = <<>>
        /\ idx = 1
    /\ (pc = "assemble" \/ idx > 1 \/ alerts # <<>>) =>
        /\ ~ raised
        /\ candidate_rows # <<>>
        /\ ProductIdSet(candidate_rows) = Range(product_ids)

\* a query failed after the candidates and the activity sums had been fetched
C9_Witness ==
    /\ raised
    /\ candidate_rows # <<>>
    /\ DOMAIN recent_sales_map # {}

\* C10: both aggregates sum exactly the order items of the requested
\* company's orders, of a candidate product, created at or after the window
\* start; the alerts and their projections follow from those sums alone.
C10_SalesAggregatesFiltered ==
    /\ pc \in {"avg_sales", "suppliers", "supplier_map", "assemble"} =>
        \A p \in ProductIds :
            Get(recent_sales_map, p, 0) =
                IF p \in ProductIdSet(candidate_rows) THEN ActivitySold(p) ELSE 0
    /\ pc \in {"suppliers", "supplier_map", "assemble"} =>
        \A p \in ProductIds :
            Get(avg_sales_map, p, 0) =
                IF p \in ProductIdSet(candidate_rows) THEN AveragingSold(p) ELSE 0
    /\ \A i \in DOMAIN Emitted :
        /\ ActivitySold(Emitted[i].product_id) # 0
        /\ Emitted[i].days_until_stockout =
               DaysUntilStockout(Emitted[i].current_stock,
                                 AveragingSold(Emitted[i].product_id))

\* an alert owed to an order item created exactly at the window start, while
\* another company sold the same product inside the window
C10_Witness ==
    /\ Finished
    /\ \E i \in DOMAIN Emitted :
        /\ \E it \in order_items :
            /\ it.company_id = company_id
            /\ it.product_id = Emitted[i].product_id
            /\ it.created_at = now - SALES_ACTIVITY_WINDOW_DAYS
            /\ it.quantity > 0
        /\ \E it \in order_items :
            /\ it.company_id # company_id
            /\ it.product_id = Emitted[i].product_id
            /\ it.created_at >= now - SALES_AVG_WINDOW_DAYS
            /\ it.quantity > 0
        /\ Emitted[i].days_until_stockout = None

====
